---- MODULE Spec2Model ----
\* Kickbase budget checker (src/index.ts): the in-memory session (authToken,
\* tokenExpiry), the league cache (cachedLeagues) and the calls that read and
\* write them: loginToKickbase, isTokenValid, ensureAuthenticated,
\* getKickbaseLeagues, getKickbaseBudget, sendWhatsappAlert and runCheck.
\*
\* Time is counted in minutes. A call runs from one suspension point (an HTTP
\* exchange in flight, or the await of line 222) to the next in one step, the
\* way the event loop runs the code between two awaits.
EXTENDS Integers, Sequences, FiniteSets, TLC

\* ---------------------------------------------------------------- bounds
\* Largest value of the clock (it starts at 1, so that 0 is a past instant).
MaxNow == 3
\* Number of top-level calls a caller makes in one process.
MaxCalls == 2

\* ------------------------------------------------------ program constants
\* 5 * 60 * 1000 ms, in minutes (index.ts:138).
Margin == 5
\* index.ts:20
KICKBASE_BUDGET_THRESHOLD == 0

\* ------------------------------------------------------------- the values
\* authToken: null (line 23) or undefined (a login body without tkn), the
\* empty string, or a bearer token.
NoToken == "<absent>"
EmptyToken == ""
Tokens == {"t1", "t2"}
TokenValues == {NoToken, EmptyToken} \cup Tokens

\* tokenExpiry: null (line 24), an Invalid Date (new Date of an unparsable
\* tknex), or a timestamp.
NoExpiry == -1
InvalidDate == -2
\* tknex of a login body: unparsable, or the text of a timestamp.
BadTknex == -2
TknexValues == {BadTknex, 0} \cup ((Margin + 1) .. (MaxNow + Margin + 1))
ExpiryValues == {NoExpiry, InvalidDate} \cup (TknexValues \ {BadTknex})

\* A league is known by its id; a falsy element of a league array.
NullLeague == "<null>"
LeagueLists == {<<>>, <<"A">>, <<"B", "A">>, <<NullLeague>>}

\* currentBudget (field b) values of a budget body.
Budgets == {-2506000, -2500000, -100, -1, 0, 5000000}

Procs == {1, 2}
Ops == {"loginToKickbase", "ensureAuthenticated", "getKickbaseLeagues",
        "getKickbaseBudget", "runCheck"}
LoginPcs == {"login", "login_EA", "login_leagues", "login_budget"}
NoExit == -1

\* ---------------------------------------------------- HTTP exchanges
\* A request of the log: its kind, the bearer token it carries and the league
\* id of its URL ("-" where the request has none).
Request(k, tok, lid) == [k |-> k, tok |-> tok, lid |-> lid]

\* A response: ep is the endpoint, kind is "ok" (response.ok and a body),
\* "http" (a non-success status) or "net" (fetch or the body read rejects).
Response(ep, kind, tkn, tknex, hasList, list, wrapped, hasB, b) ==
  [ep |-> ep, kind |-> kind, tkn |-> tkn, tknex |-> tknex, hasList |-> hasList,
   list |-> list, wrapped |-> wrapped, hasB |-> hasB, b |-> b]
NoResp == Response("none", "none", NoToken, BadTknex, FALSE, <<>>, FALSE, FALSE, 0)
Failure(ep, kind) == Response(ep, kind, NoToken, BadTknex, FALSE, <<>>, FALSE, FALSE, 0)

\* Login bodies {tkn, tknex, srvl?}: srvl absent, or any league array.
LoginResponses ==
  {Failure("login", "http"), Failure("login", "net")} \cup
  {Response("login", "ok", tkn, ex, FALSE, <<>>, FALSE, FALSE, 0) :
     tkn \in TokenValues, ex \in TknexValues} \cup
  {Response("login", "ok", tkn, ex, TRUE, ls, FALSE, FALSE, 0) :
     tkn \in TokenValues, ex \in TknexValues, ls \in LeagueLists}

\* /v4/leagues bodies: {leagues: [...]}, an object without leagues, or a bare
\* array.
LeaguesResponses ==
  {Failure("leagues", "http"), Failure("leagues", "net"),
   Response("leagues", "ok", NoToken, BadTknex, FALSE, <<>>, TRUE, FALSE, 0)} \cup
  {Response("leagues", "ok", NoToken, BadTknex, TRUE, ls, w, FALSE, 0) :
     ls \in LeagueLists, w \in BOOLEAN}

\* /me/budget bodies {b?}.
BudgetResponses ==
  {Failure("budget", "http"), Failure("budget", "net"),
   Response("budget", "ok", NoToken, BadTknex, FALSE, <<>>, FALSE, FALSE, 0)} \cup
  {Response("budget", "ok", NoToken, BadTknex, FALSE, <<>>, FALSE, TRUE, b) :
     b \in Budgets}

\* client.messages.create resolves, or rejects.
NotifyResponses ==
  {Response("notify", "ok", NoToken, BadTknex, FALSE, <<>>, FALSE, FALSE, 0),
   Failure("notify", "net")}

\* ------------------------------------------------------- pure functions
\* !x of a token: null, undefined and "" are falsy.
Falsy(tok) == tok \in {NoToken, EmptyToken}

\* new Date(tknex): an unparsable text gives an Invalid Date.
NewDate(tknex) == IF tknex = BadTknex THEN InvalidDate ELSE tknex

\* a > b on two Dates: false when either is an Invalid Date (NaN).
DateGT(a, b) == a # InvalidDate /\ b # InvalidDate /\ a > b

\* isTokenValid, lines 132-140, on the session (tok, exp) at time t.
isTokenValidGe(tok, exp, t) ==
  IF Falsy(tok) \/ exp = NoExpiry THEN FALSE
  ELSE exp # InvalidDate /\ exp >= t + Margin

isTokenValid(tok, exp, t) ==
  IF Falsy(tok) \/ exp = NoExpiry THEN FALSE ELSE DateGT(exp, t + Margin)

\* loginToKickbase, lines 99-126, on response r with the session and cache
\* (tok, exp, cache): the session and cache it leaves and whether it throws.
\* A body with an unparsable tknex is stored and then makes toISOString (line
\* 120) throw a RangeError.
loginToKickbaseClears(r, tok, exp, cache) ==
  IF r.kind # "ok"
  THEN [tok |-> NoToken, exp |-> NoExpiry, cache |-> <<>>, thrown |-> TRUE]
  ELSE [tok |-> r.tkn, exp |-> NewDate(r.tknex),
        cache |-> IF r.hasList THEN r.list ELSE cache,
        thrown |-> NewDate(r.tknex) = InvalidDate]

loginToKickbaseKeepsFirst(r, tok, exp, cache) ==
  IF r.kind # "ok"
  THEN [tok |-> tok, exp |-> exp, cache |-> cache, thrown |-> TRUE]
  ELSE IF tok \in Tokens
  THEN [tok |-> tok, exp |-> exp, cache |-> cache, thrown |-> FALSE]
  ELSE [tok |-> r.tkn, exp |-> NewDate(r.tknex),
        cache |-> IF r.hasList THEN r.list ELSE cache,
        thrown |-> NewDate(r.tknex) = InvalidDate]

loginToKickbase(r, tok, exp, cache) ==
  IF r.kind # "ok"
  THEN [tok |-> tok, exp |-> exp, cache |-> cache, thrown |-> TRUE]
  ELSE [tok |-> r.tkn, exp |-> NewDate(r.tknex),
        cache |-> IF r.hasList THEN r.list ELSE cache,
        thrown |-> NewDate(r.tknex) = InvalidDate]

\* Lines 191-194: data.leagues || (Array.isArray(data) ? data : []).
leaguesFromBodyWrappedOnly(r) ==
  IF r.wrapped /\ r.hasList THEN r.list ELSE <<>>

leaguesFromBody(r) ==
  IF r.wrapped THEN (IF r.hasList THEN r.list ELSE <<>>) ELSE r.list

\* Line 267: budgetData.b || 0.
budgetFromBodyClamped(r) == IF r.hasB /\ r.b > 0 THEN r.b ELSE 0

budgetFromBody(r) == IF r.hasB /\ r.b # 0 THEN r.b ELSE 0

\* Line 327: currentBudget < KICKBASE_BUDGET_THRESHOLD.
budgetBelowThresholdLe(b) == b <= KICKBASE_BUDGET_THRESHOLD

budgetBelowThreshold(b) == b < KICKBASE_BUDGET_THRESHOLD

\* (budget / 1_000_000).toFixed(2), lines 269 and 290: the sign, then the
\* magnitude rounded to the nearest hundredth of a million, with two decimals.
\* (A magnitude exactly halfway between two hundredths rounds by the binary
\* value of the quotient; Budgets holds no such value.)
Abs(n) == IF n < 0 THEN 0 - n ELSE n
TwoDigits(c) == IF c < 10 THEN "0" \o ToString(c) ELSE ToString(c)

millionsFixed2Unsigned(budget) ==
  LET n == (Abs(budget) + 5000) \div 10000 IN
    (IF n > 0 /\ budget < 0 THEN "-" ELSE "")
      \o ToString(n \div 100) \o "." \o TwoDigits(n % 100)

millionsFixed2(budget) ==
  LET n == (Abs(budget) + 5000) \div 10000 IN
    (IF budget < 0 THEN "-" ELSE "")
      \o ToString(n \div 100) \o "." \o TwoDigits(n % 100)

\* contentVariables, lines 289-292 (the object that JSON.stringify encodes).
contentVariables(budget) ==
  ("1" :> (millionsFixed2(budget) \o "M")) @@ ("2" :> "20:30")
NoVariables == ("1" :> "") @@ ("2" :> "")

\* ------------------------------------------- where a call goes next
\* What a step leaves of the call: its position, the request it sends (a
\* sequence of none or one), how the top-level call settled ("none" while it
\* runs), what getKickbaseLeagues and getKickbaseBudget returned in this step,
\* whether runCheck's catch ran, and the exit code of the process.
NoLeagues == [set |-> FALSE, ls |-> <<>>]
NoBudget == [set |-> FALSE, b |-> 0]

Suspend(pcv, req, lret, bret) ==
  [pc |-> pcv, req |-> req, st |-> "none", lret |-> lret, bret |-> bret,
   fatal |-> FALSE, exit |-> NoExit]

Settle(st, lret, bret, fatal, exit) ==
  [pc |-> "done", req |-> <<>>, st |-> st, lret |-> lret, bret |-> bret,
   fatal |-> fatal, exit |-> exit]

\* runCheck, lines 335-341: the catch logs the error and runCheck returns;
\* nothing sets an exit code, so the process ends with code 0 either way.
runCheckCatchAlerts == Suspend("notify", <<Request("notify", "-", "-")>>, NoLeagues, NoBudget)

runCheckCatch == Settle("ok", NoLeagues, NoBudget, TRUE, 0)

runCheckEnd(lret, bret) == Settle("ok", lret, bret, FALSE, 0)

\* getKickbaseBudget throws (lines 228, 234, 257, 271-274) to its caller.
budgetThrows(o) ==
  IF o = "runCheck" THEN runCheckCatch
  ELSE Settle("error", NoLeagues, NoBudget, FALSE, NoExit)

\* getKickbaseLeagues throws (line 162 or 211) to its caller.
leaguesThrows(o) ==
  IF o = "getKickbaseLeagues" THEN Settle("error", NoLeagues, NoBudget, FALSE, NoExit)
  ELSE budgetThrows(o)

\* getKickbaseBudget returns budget b (line 270); runCheck, lines 325-334.
budgetReturns(o, b) ==
  IF o = "runCheck"
  THEN IF budgetBelowThreshold(b)
       THEN Suspend("notify", <<Request("notify", "-", "-")>>, NoLeagues,
                    [set |-> TRUE, b |-> b])
       ELSE runCheckEnd(NoLeagues, [set |-> TRUE, b |-> b])
  ELSE Settle("ok", NoLeagues, [set |-> TRUE, b |-> b], FALSE, NoExit)

\* getKickbaseLeagues returns ls (line 167 or 198); getKickbaseBudget, lines
\* 227-254, sends the budget request of the first league with the token tok.
leaguesReturnsLast(o, ls, tok) ==
  IF o = "getKickbaseLeagues"
  THEN Settle("ok", [set |-> TRUE, ls |-> ls], NoBudget, FALSE, NoExit)
  ELSE IF Len(ls) = 0
       THEN [budgetThrows(o) EXCEPT !.lret = [set |-> TRUE, ls |-> ls]]
  ELSE IF ls[1] = NullLeague
       THEN [budgetThrows(o) EXCEPT !.lret = [set |-> TRUE, ls |-> ls]]
  ELSE Suspend("budget", <<Request("budget", tok, ls[Len(ls)])>>,
               [set |-> TRUE, ls |-> ls], NoBudget)

leaguesReturns(o, ls, tok) ==
  IF o = "getKickbaseLeagues"
  THEN Settle("ok", [set |-> TRUE, ls |-> ls], NoBudget, FALSE, NoExit)
  ELSE IF Len(ls) = 0
       THEN [budgetThrows(o) EXCEPT !.lret = [set |-> TRUE, ls |-> ls]]
  ELSE IF ls[1] = NullLeague
       THEN [budgetThrows(o) EXCEPT !.lret = [set |-> TRUE, ls |-> ls]]
  ELSE Suspend("budget", <<Request("budget", tok, ls[1])>>,
               [set |-> TRUE, ls |-> ls], NoBudget)

\* getKickbaseLeagues after its ensureAuthenticated, lines 164-187.
leaguesAfterAuthNoCache(o, tok, cache) ==
  Suspend("leagues", <<Request("leagues", tok, "-")>>, NoLeagues, NoBudget)

leaguesAfterAuth(o, tok, cache) ==
  IF Len(cache) > 0 THEN leaguesReturns(o, cache, tok)
  ELSE Suspend("leagues", <<Request("leagues", tok, "-")>>, NoLeagues, NoBudget)

\* ensureAuthenticated, lines 145-157, called at line 162.
getKickbaseLeagues(o, tok, exp, cache, t) ==
  IF isTokenValid(tok, exp, t) THEN leaguesAfterAuth(o, tok, cache)
  ELSE Suspend("login_leagues", <<Request("login", "-", "-")>>, NoLeagues, NoBudget)

\* ensureAuthenticated called at line 222: the await of line 222 resumes in a
\* later step ("authed").
getKickbaseBudget(o, tok, exp, t) ==
  IF isTokenValid(tok, exp, t) THEN Suspend("authed", <<>>, NoLeagues, NoBudget)
  ELSE Suspend("login_budget", <<Request("login", "-", "-")>>, NoLeagues, NoBudget)

\* ensureAuthenticated called by the caller itself.
ensureAuthenticatedAlways(tok, exp, t) ==
  Suspend("login_EA", <<Request("login", "-", "-")>>, NoLeagues, NoBudget)

ensureAuthenticated(tok, exp, t) ==
  IF isTokenValid(tok, exp, t) THEN Settle("ok", NoLeagues, NoBudget, FALSE, NoExit)
  ELSE Suspend("login_EA", <<Request("login", "-", "-")>>, NoLeagues, NoBudget)

\* The first step of top-level call o.
Enter(o, tok, exp, cache, t) ==
  CASE o = "loginToKickbase" ->
         Suspend("login", <<Request("login", "-", "-")>>, NoLeagues, NoBudget)
    [] o = "ensureAuthenticated" -> ensureAuthenticated(tok, exp, t)
    [] o = "getKickbaseLeagues" -> getKickbaseLeagues(o, tok, exp, cache, t)
    [] o \in {"getKickbaseBudget", "runCheck"} -> getKickbaseBudget(o, tok, exp, t)

\* The step after a login response, by the place that awaits it: g is what
\* loginToKickbase left.
afterLoginRetries(site, o, g) ==
  IF g.thrown
  THEN Suspend(site, <<Request("login", "-", "-")>>, NoLeagues, NoBudget)
  ELSE CASE site \in {"login", "login_EA"} ->
              Settle("ok", NoLeagues, NoBudget, FALSE, NoExit)
         [] site = "login_leagues" -> leaguesAfterAuth(o, g.tok, g.cache)
         [] site = "login_budget" -> Suspend("authed", <<>>, NoLeagues, NoBudget)

afterLogin(site, o, g) ==
  CASE site \in {"login", "login_EA"} ->
         Settle(IF g.thrown THEN "error" ELSE "ok", NoLeagues, NoBudget, FALSE, NoExit)
    [] site = "login_leagues" ->
         IF g.thrown THEN leaguesThrows(o) ELSE leaguesAfterAuth(o, g.tok, g.cache)
    [] site = "login_budget" ->
         IF g.thrown THEN budgetThrows(o)
         ELSE Suspend("authed", <<>>, NoLeagues, NoBudget)

\* getKickbaseLeagues on the listing response r, lines 188-211.
afterLeaguesAnyLength(o, r, tok) ==
  IF r.kind = "ok" THEN leaguesReturns(o, leaguesFromBody(r), tok)
  ELSE leaguesThrows(o)

afterLeagues(o, r, tok) ==
  IF r.kind = "ok" /\ Len(leaguesFromBody(r)) > 0
  THEN leaguesReturns(o, leaguesFromBody(r), tok)
  ELSE leaguesThrows(o)

\* getKickbaseBudget on the budget response r, lines 256-274.
afterBudget(o, r) ==
  IF r.kind = "ok" THEN budgetReturns(o, budgetFromBody(r)) ELSE budgetThrows(o)

\* sendWhatsappAlert on the channel's answer, lines 285-299: the catch logs
\* and the function returns; then runCheck ends.
sendWhatsappAlertRethrows(r) == IF r.kind = "ok" THEN runCheckEnd(NoLeagues, NoBudget) ELSE runCheckCatch

sendWhatsappAlert(r) == runCheckEnd(NoLeagues, NoBudget)

\* ------------------------------------------------------------- the state
VARIABLES
  authToken,      \* line 23
  tokenExpiry,    \* line 24
  cachedLeagues,  \* line 25
  now,            \* Date.now(), in minutes
  validOut,       \* what the last isTokenValid() returned: "none", "true", "false"
  op,             \* per caller: the top-level call it is in
  pc,             \* per caller: "idle", the exchange it awaits, "authed", "done"
  ncall,          \* per caller: the number of top-level calls it has made
  log,            \* per caller: the requests of its current call, in order
  resp,           \* per caller: the last response its current call received
  snap,           \* per caller: session and cache when its pending login was sent
  st,             \* per caller: "none", or how its call settled: "ok", "error"
  lret,           \* per caller: what getKickbaseLeagues returned to it
  bret,           \* per caller: what getKickbaseBudget returned to it
  fatal,          \* per caller: runCheck's catch (line 336) ran
  exitCode,       \* per caller: exit code of the process once runCheck settled
  sent            \* per caller: contentVariables of the notification it sent

vars == <<authToken, tokenExpiry, cachedLeagues, now, validOut, op, pc, ncall,
          log, resp, snap, st, lret, bret, fatal, exitCode, sent>>

session == <<authToken, tokenExpiry, cachedLeagues>>

NoSnap == [set |-> FALSE, tok |-> NoToken, exp |-> NoExpiry, cache |-> <<>>]
Snap(tok, exp, cache) == [set |-> TRUE, tok |-> tok, exp |-> exp, cache |-> cache]

\* Lines 22-25 and the start of the process.
Init ==
  /\ authToken = NoToken
  /\ tokenExpiry = NoExpiry
  /\ cachedLeagues = <<>>
  /\ now = 1
  /\ validOut = "none"
  /\ op = [p \in Procs |-> "none"]
  /\ pc = [p \in Procs |-> "idle"]
  /\ ncall = [p \in Procs |-> 0]
  /\ log = [p \in Procs |-> <<>>]
  /\ resp = [p \in Procs |-> NoResp]
  /\ snap = [p \in Procs |-> NoSnap]
  /\ st = [p \in Procs |-> "none"]
  /\ lret = [p \in Procs |-> NoLeagues]
  /\ bret = [p \in Procs |-> NoBudget]
  /\ fatal = [p \in Procs |-> FALSE]
  /\ exitCode = [p \in Procs |-> NoExit]
  /\ sent = [p \in Procs |-> NoVariables]

Bool(b) == IF b THEN "true" ELSE "false"

SendsLogin(k) == k.req # <<>> /\ k.req[1].k = "login"
SendsNotify(k) == k.req # <<>> /\ k.req[1].k = "notify"

\* Caller p takes the step that leaves k of its call; baseLog, baseL and baseB
\* are the log and the returned values the step starts from, and (tok, exp,
\* cache) the session and cache the step leaves.
Apply(p, k, baseLog, baseL, baseB, tok, exp, cache) ==
  /\ pc' = [pc EXCEPT ![p] = k.pc]
  /\ log' = [log EXCEPT ![p] = baseLog \o k.req]
  /\ st' = [st EXCEPT ![p] = k.st]
  /\ lret' = [lret EXCEPT ![p] = IF k.lret.set THEN k.lret ELSE baseL]
  /\ bret' = [bret EXCEPT ![p] = IF k.bret.set THEN k.bret ELSE baseB]
  /\ fatal' = [fatal EXCEPT ![p] = k.fatal]
  /\ exitCode' = [exitCode EXCEPT ![p] = k.exit]
  /\ snap' = [snap EXCEPT ![p] = IF SendsLogin(k) THEN Snap(tok, exp, cache) ELSE NoSnap]
  \* sendWhatsappAlert(currentBudget); a call that has sent no request has
  \* sent no notification.
  /\ sent' = [sent EXCEPT ![p] = IF SendsNotify(k) THEN contentVariables(k.bret.b)
                                 ELSE IF baseLog = <<>> THEN NoVariables ELSE @]

\* Caller p calls o.
Call(p, o) ==
  /\ pc[p] \in {"idle", "done"}
  /\ ncall[p] < MaxCalls
  /\ op' = [op EXCEPT ![p] = o]
  /\ ncall' = [ncall EXCEPT ![p] = @ + 1]
  /\ resp' = [resp EXCEPT ![p] = NoResp]
  /\ validOut' = IF o = "loginToKickbase" THEN validOut
                 ELSE Bool(isTokenValid(authToken, tokenExpiry, now))
  /\ Apply(p, Enter(o, authToken, tokenExpiry, cachedLeagues, now),
           <<>>, NoLeagues, NoBudget, authToken, tokenExpiry, cachedLeagues)
  /\ UNCHANGED <<authToken, tokenExpiry, cachedLeagues, now>>

\* The await of line 222 resumes: getKickbaseBudget calls getKickbaseLeagues.
Resume(p) ==
  /\ pc[p] = "authed"
  /\ validOut' = Bool(isTokenValid(authToken, tokenExpiry, now))
  /\ Apply(p, getKickbaseLeagues(op[p], authToken, tokenExpiry, cachedLeagues, now),
           log[p], lret[p], bret[p], authToken, tokenExpiry, cachedLeagues)
  /\ UNCHANGED <<authToken, tokenExpiry, cachedLeagues, now, op, ncall, resp>>

\* The login exchange of caller p ends with r.
LoginResponse(p, r) ==
  /\ pc[p] \in LoginPcs
  /\ LET g == loginToKickbase(r, authToken, tokenExpiry, cachedLeagues) IN
       /\ authToken' = g.tok
       /\ tokenExpiry' = g.exp
       /\ cachedLeagues' = g.cache
       /\ Apply(p, afterLogin(pc[p], op[p], g), log[p], lret[p], bret[p],
                g.tok, g.exp, g.cache)
  /\ resp' = [resp EXCEPT ![p] = r]
  /\ UNCHANGED <<now, validOut, op, ncall>>

\* The league-listing exchange of caller p ends with r (line 197 caches).
LeaguesResponse(p, r) ==
  /\ pc[p] = "leagues"
  /\ cachedLeagues' = IF r.kind = "ok" /\ Len(leaguesFromBody(r)) > 0
                      THEN leaguesFromBody(r) ELSE cachedLeagues
  /\ Apply(p, afterLeagues(op[p], r, authToken), log[p], lret[p], bret[p],
           authToken, tokenExpiry, cachedLeagues')
  /\ resp' = [resp EXCEPT ![p] = r]
  /\ UNCHANGED <<authToken, tokenExpiry, now, validOut, op, ncall>>

\* The budget exchange of caller p ends with r.
BudgetResponse(p, r) ==
  /\ pc[p] = "budget"
  /\ Apply(p, afterBudget(op[p], r), log[p], lret[p], bret[p],
           authToken, tokenExpiry, cachedLeagues)
  /\ resp' = [resp EXCEPT ![p] = r]
  /\ UNCHANGED <<authToken, tokenExpiry, cachedLeagues, now, validOut, op, ncall>>

\* The notification channel answers caller p with r.
NotifyResponse(p, r) ==
  /\ pc[p] = "notify"
  /\ Apply(p, sendWhatsappAlert(r), log[p], lret[p], bret[p],
           authToken, tokenExpiry, cachedLeagues)
  /\ resp' = [resp EXCEPT ![p] = r]
  /\ UNCHANGED <<authToken, tokenExpiry, cachedLeagues, now, validOut, op, ncall>>

\* Time passes.
Tick ==
  /\ now < MaxNow
  /\ now' = now + 1
  /\ UNCHANGED <<authToken, tokenExpiry, cachedLeagues, validOut, op, pc, ncall,
                 log, resp, snap, st, lret, bret, fatal, exitCode, sent>>

Step(p) ==
  \/ \E o \in Ops : Call(p, o)
  \/ Resume(p)
  \/ \E r \in LoginResponses : LoginResponse(p, r)
  \/ \E r \in LeaguesResponses : LeaguesResponse(p, r)
  \/ \E r \in BudgetResponses : BudgetResponse(p, r)
  \/ \E r \in NotifyResponses : NotifyResponse(p, r)

\* One caller, one call at a time (section 5 of the design: a single logical
\* thread of control).
Next == Tick \/ Step(1)

Spec == Init /\ [][Next]_vars

\* Overlapping runs: two triggers of the script share the module-level session
\* and cache (lines 23-25); each makes the one runCheck() of line 341, and the
\* runs interleave at their suspension points. The answers are a sample of
\* each endpoint's answers.
OverlapLoginResponses ==
  {Failure("login", "http")} \cup
  {Response("login", "ok", tkn, ex, FALSE, <<>>, FALSE, FALSE, 0) :
     tkn \in Tokens, ex \in {Margin + 1, MaxNow + Margin + 1}} \cup
  {Response("login", "ok", tkn, ex, TRUE, ls, FALSE, FALSE, 0) :
     tkn \in Tokens, ex \in {Margin + 1, MaxNow + Margin + 1},
     ls \in {<<"A">>, <<"B", "A">>}}

OverlapLeaguesResponses ==
  {Failure("leagues", "http")} \cup
  {Response("leagues", "ok", NoToken, BadTknex, TRUE, ls, TRUE, FALSE, 0) :
     ls \in {<<"A">>, <<"B", "A">>}}

OverlapBudgetResponses ==
  {Failure("budget", "http")} \cup
  {Response("budget", "ok", NoToken, BadTknex, FALSE, <<>>, FALSE, TRUE, b) :
     b \in {-1, 5000000}}

StepOverlap(p) ==
  \/ pc[p] = "idle" /\ Call(p, "runCheck")
  \/ Resume(p)
  \/ \E r \in OverlapLoginResponses : LoginResponse(p, r)
  \/ \E r \in OverlapLeaguesResponses : LeaguesResponse(p, r)
  \/ \E r \in OverlapBudgetResponses : BudgetResponse(p, r)
  \/ \E r \in NotifyResponses : NotifyResponse(p, r)

NextOverlap == Tick \/ \E p \in Procs : StepOverlap(p)

SpecOverlap == Init /\ [][NextOverlap]_vars

\* The validity check alone: from any session at any time, one call of
\* ensureAuthenticated applies isTokenValid to it.
InitValidity ==
  /\ authToken \in TokenValues
  /\ tokenExpiry \in ExpiryValues
  /\ cachedLeagues = <<>>
  /\ now \in 1 .. MaxNow
  /\ validOut = "none"
  /\ op = [p \in Procs |-> "none"]
  /\ pc = [p \in Procs |-> "idle"]
  /\ ncall = [p \in Procs |-> 0]
  /\ log = [p \in Procs |-> <<>>]
  /\ resp = [p \in Procs |-> NoResp]
  /\ snap = [p \in Procs |-> NoSnap]
  /\ st = [p \in Procs |-> "none"]
  /\ lret = [p \in Procs |-> NoLeagues]
  /\ bret = [p \in Procs |-> NoBudget]
  /\ fatal = [p \in Procs |-> FALSE]
  /\ exitCode = [p \in Procs |-> NoExit]
  /\ sent = [p \in Procs |-> NoVariables]

NextValidity == Call(1, "ensureAuthenticated")

SpecValidity == InitValidity /\ [][NextValidity]_vars

\* ------------------------------------------------------------ the claims
Kinds(lg) == [i \in 1 .. Len(lg) |-> lg[i].k]
Count(lg, k) == Cardinality({i \in 1 .. Len(lg) : lg[i].k = k})

\* Section 3 of the design: token present and expiry strictly later than
\* now + 5 minutes.
ValidPerDesign(tok, exp, t) ==
  tok # NoToken /\ exp \notin {NoExpiry, InvalidDate} /\ exp > t + Margin

\* The same with a token that is present and not empty.
ValidSession(tok, exp, t) ==
  tok \notin {NoToken, EmptyToken} /\ exp \notin {NoExpiry, InvalidDate} /\ exp > t + Margin

\* In this step caller p starts a top-level call.
Calls(p) == ncall'[p] = ncall[p] + 1
\* In this step the top-level call of caller p settles.
Settles(p) == pc'[p] = "done" /\ (pc[p] # "done" \/ Calls(p))
\* In this step caller p receives a response.
Receives(p) == resp'[p] # NoResp /\ pc[p] \notin {"idle", "done", "authed"} /\ pc'[p] # pc[p]

\* C1: whenever ensureAuthenticated() returns successfully the in-memory
\* session is valid: token present and expiry strictly later than now + 5
\* minutes. (Violated: a login body whose tknex is already past is stored and
\* ensureAuthenticated returns without checking it again.)
C1_ReturnImpliesValid ==
  [][\A p \in Procs :
       (Settles(p) /\ op'[p] = "ensureAuthenticated" /\ st'[p] = "ok")
         => ValidPerDesign(authToken', tokenExpiry', now')]_vars

\* C2 as stated: with a non-empty league cache, whatever the session, a call
\* of getLeagues() makes no network call, returns the cached sequence and
\* leaves the cache unchanged.
C2_CachePrecedenceAnySession ==
  [][\A p \in Procs :
       (Calls(p) /\ op'[p] = "getKickbaseLeagues" /\ Len(cachedLeagues) > 0)
         => /\ pc'[p] = "done" /\ st'[p] = "ok" /\ log'[p] = <<>>
            /\ lret'[p] = [set |-> TRUE, ls |-> cachedLeagues]
            /\ cachedLeagues' = cachedLeagues]_vars

\* C2 amended: with a non-empty league cache and a valid session, a call of
\* getLeagues() makes no network call, returns the cached sequence and leaves
\* the cache unchanged.
C2_CachePrecedence ==
  [][\A p \in Procs :
       (/\ Calls(p) /\ op'[p] = "getKickbaseLeagues" /\ Len(cachedLeagues) > 0
        /\ ValidSession(authToken, tokenExpiry, now))
         => /\ pc'[p] = "done" /\ st'[p] = "ok" /\ log'[p] = <<>>
            /\ lret'[p] = [set |-> TRUE, ls |-> cachedLeagues]
            /\ cachedLeagues' = cachedLeagues]_vars

\* C2 witness: a second call, getLeagues(), answered from the cache without a
\* request.
C2_Witness ==
  /\ op[1] = "getKickbaseLeagues" /\ ncall[1] = 2 /\ pc[1] = "done"
  /\ log[1] = <<>> /\ lret[1].set /\ lret[1].ls = cachedLeagues
  /\ Len(cachedLeagues) > 0 /\ validOut = "true"

\* C3: ensureAuthenticated() called with a valid session makes no network
\* call and changes neither token, expiry nor cache; and when the call before
\* it was an ensureAuthenticated() that started from an invalid session, the
\* two calls together make exactly one login call.
C3_Idempotent ==
  [][\A p \in Procs :
       (/\ Calls(p) /\ op'[p] = "ensureAuthenticated"
        /\ ValidSession(authToken, tokenExpiry, now))
         => /\ pc'[p] = "done" /\ st'[p] = "ok" /\ log'[p] = <<>>
            /\ UNCHANGED session
            /\ (op[p] = "ensureAuthenticated" /\ st[p] = "ok" /\ log[p] # <<>>)
                 => /\ Count(log[p], "login") + Count(log'[p], "login") = 1
                    /\ Len(log[p]) + Len(log'[p]) = 1]_vars

\* C3 witness: the second of two calls found the session valid and sent
\* nothing.
C3_Witness ==
  /\ op[1] = "ensureAuthenticated" /\ ncall[1] = 2 /\ pc[1] = "done"
  /\ st[1] = "ok" /\ log[1] = <<>> /\ validOut = "true"
  /\ ValidSession(authToken, tokenExpiry, now)

\* C4: a login that fails with a non-success status or a transport failure
\* leaves token, expiry and league cache as they were when the login was sent
\* and ends with an error raised to the caller (for runCheck: in its catch).
C4_FailedLoginKeepsSession ==
  [][\A p \in Procs :
       (pc[p] \in LoginPcs /\ Receives(p) /\ resp'[p].kind \in {"http", "net"})
         => /\ snap[p].set
            /\ authToken' = snap[p].tok /\ tokenExpiry' = snap[p].exp
            /\ cachedLeagues' = snap[p].cache
            /\ UNCHANGED session
            /\ pc'[p] = "done"
            /\ IF op[p] = "runCheck" THEN fatal'[p] ELSE st'[p] = "error"]_vars

\* C4 witness: a login failed while an earlier session and cache were held,
\* and they are still held.
C4_Witness ==
  /\ resp[1].ep = "login" /\ resp[1].kind = "http" /\ pc[1] = "done"
  /\ st[1] = "error" /\ authToken \in Tokens /\ tokenExpiry = 0
  /\ Len(cachedLeagues) > 0

\* C5 as stated: isTokenValid returns true exactly when the token is present
\* (not null) and expiry > now + 5 minutes.
C5_ValidIffPresent ==
  validOut # "none" => validOut = Bool(ValidPerDesign(authToken, tokenExpiry, now))

\* C5 amended: isTokenValid returns true exactly when the token is present
\* and not empty, and the expiry is a timestamp strictly later than now + 5
\* minutes.
C5_ValidIff ==
  validOut # "none" => validOut = Bool(ValidSession(authToken, tokenExpiry, now))

\* C5 witness: a token whose expiry is exactly now + 5 minutes was found
\* invalid.
C5_Witness ==
  /\ validOut = "false" /\ authToken \in Tokens /\ tokenExpiry = now + Margin

\* The call of caller p failed: runCheck went through its catch, any other
\* call threw.
Failed(p) == IF op[p] = "runCheck" THEN fatal[p] ELSE st[p] = "error"

C7_ScenarioB ==
  [][\A p \in Procs :
       /\ (/\ pc[p] = "leagues" /\ Receives(p)
           /\ op[p] \in {"getKickbaseBudget", "runCheck"}
           /\ resp'[p].kind = "ok" /\ resp'[p].wrapped /\ resp'[p].hasList
           /\ resp'[p].list = <<>>)
            => /\ pc'[p] = "done" /\ Failed(p)'
               /\ Count(log'[p], "budget") = 0 /\ Count(log'[p], "notify") = 0
               /\ ~bret'[p].set
       /\ (pc[p] = "done" /\ ~Calls(p)) => (pc'[p] = "done" /\ log'[p] = log[p])]_vars

\* C7 witness: a run whose login carried no league list and whose listing
\* answered {leagues: []} ended in runCheck's catch.
C7_Witness ==
  /\ op[1] = "runCheck" /\ ncall[1] = 1 /\ pc[1] = "done" /\ fatal[1]
  /\ Kinds(log[1]) = <<"login", "leagues">>
  /\ resp[1].ep = "leagues" /\ resp[1].kind = "ok" /\ resp[1].wrapped
  /\ resp[1].hasList /\ resp[1].list = <<>>

\* C8: a run that resolved the budget called the notification channel once
\* if budget < threshold and not at all otherwise (0 does not alert, -1
\* does); no run calls it before the budget is resolved or more than once.
C8_Threshold ==
  \A p \in Procs :
    op[p] = "runCheck" =>
      /\ Count(log[p], "notify") <= 1
      /\ ~bret[p].set => Count(log[p], "notify") = 0
      /\ bret[p].set =>
           Count(log[p], "notify") =
             (IF bret[p].b < KICKBASE_BUDGET_THRESHOLD THEN 1 ELSE 0)
      /\ (bret[p].set /\ bret[p].b = KICKBASE_BUDGET_THRESHOLD)
           => Count(log[p], "notify") = 0
      /\ (bret[p].set /\ bret[p].b = KICKBASE_BUDGET_THRESHOLD - 1)
           => Count(log[p], "notify") = 1

\* C8 witness: a run ended with budget -1 and one notification.
C8_Witness ==
  /\ op[1] = "runCheck" /\ pc[1] = "done" /\ bret[1] = [set |-> TRUE, b |-> -1]
  /\ Count(log[1], "notify") = 1 /\ ~fatal[1]

\* C9: a run that fails while authenticating or resolving the budget ends in
\* an error state told apart from a successful end: runCheck does not settle
\* normally and the exit code is not 0. (Violated: runCheck's catch logs the
\* error and returns, and the process ends with code 0.)
C9_FatalEndsInError ==
  \A p \in Procs :
    (op[p] = "runCheck" /\ pc[p] = "done" /\ ~bret[p].set)
      => st[p] = "error" /\ exitCode[p] # 0

\* C10: when the notification call rejects, sendWhatsappAlert returns, the
\* run ends successfully (no catch in runCheck, exit code 0) and the
\* notification was attempted once; no run attempts it twice.
C10_AlertFailureNotFatal ==
  \A p \in Procs :
    /\ Count(log[p], "notify") <= 1
    /\ (resp[p].ep = "notify" /\ resp[p].kind # "ok")
         => /\ pc[p] = "done" /\ st[p] = "ok" /\ ~fatal[p] /\ exitCode[p] = 0
            /\ Count(log[p], "notify") = 1

\* C10 witness: the notification of budget -100 was rejected and the run
\* ended successfully.
C10_Witness ==
  /\ op[1] = "runCheck" /\ pc[1] = "done" /\ resp[1].ep = "notify"
  /\ resp[1].kind = "net" /\ ~fatal[1] /\ exitCode[1] = 0
  /\ bret[1] = [set |-> TRUE, b |-> -100]

\* C11: once a login call of a run fails (a non-success status, a transport
\* failure, or the RangeError of line 120), the run ends failed in that step
\* without a further request, and an ended run sends nothing.
C11_NoRetryAfterFailedLogin ==
  [][\A p \in Procs :
       /\ (/\ pc[p] \in LoginPcs /\ resp'[p] # resp[p] /\ resp'[p].ep = "login"
           /\ (resp'[p].kind # "ok" \/ resp'[p].tknex = BadTknex))
            => /\ pc'[p] = "done" /\ Failed(p)'
               /\ log'[p] = log[p]
               /\ Count(log'[p], "leagues") = 0 /\ Count(log'[p], "budget") = 0
               /\ Count(log'[p], "notify") = 0
       /\ (pc[p] = "done" /\ ~Calls(p)) => log'[p] = log[p]]_vars

\* C11 witness: a run whose second login (sent by getKickbaseLeagues) failed
\* ended in runCheck's catch with two login requests and nothing else.
C11_Witness ==
  /\ op[1] = "runCheck" /\ pc[1] = "done" /\ fatal[1]
  /\ Kinds(log[1]) = <<"login", "login">>
  /\ resp[1].ep = "login" /\ resp[1].kind = "net"

\* C12: the notification carries slot "1" = budget / 1,000,000 with two
\* decimals, the sign kept, and the suffix "M" (-2,500,000 gives "-2.50M",
\* -100 gives "-0.00M"), and slot "2" = "20:30"; the budget the run holds is
\* still the integer of the budget response.
C12_AlertPayload ==
  \A p \in Procs :
    Count(log[p], "notify") = 1 =>
      /\ DOMAIN sent[p] = {"1", "2"}
      /\ sent[p]["2"] = "20:30"
      /\ bret[p].set
      /\ bret[p].b = -2506000 => sent[p]["1"] = "-2.51M"
      /\ bret[p].b = -2500000 => sent[p]["1"] = "-2.50M"
      /\ bret[p].b = -100 => sent[p]["1"] = "-0.00M"
      /\ bret[p].b = -1 => sent[p]["1"] = "-0.00M"
      /\ bret[p].b \in {-2506000, -2500000, -100, -1}
      /\ resp[p].ep = "budget" => (resp[p].hasB /\ bret[p].b = resp[p].b)

\* C12 witness: the notification of budget -100 was sent with "-0.00M" and
\* "20:30".
C12_Witness ==
  /\ op[1] = "runCheck" /\ pc[1] = "done" /\ Count(log[1], "notify") = 1
  /\ bret[1] = [set |-> TRUE, b |-> -100]
  /\ sent[1] = (("1" :> "-0.00M") @@ ("2" :> "20:30"))

\* C13: getLeagues() that is past its authentication with an empty cache
\* sends one league-listing request; a success with a non-empty sequence
\* (under leagues, or bare) is stored as the cache and returned; any other
\* answer makes the call fail with the cache left empty.
C13_LeagueListing ==
  [][\A p \in Procs :
       /\ (/\ Calls(p) /\ op'[p] = "getKickbaseLeagues"
           /\ ValidSession(authToken, tokenExpiry, now) /\ cachedLeagues = <<>>)
            => pc'[p] = "leagues"
       /\ (/\ pc[p] = "authed" /\ pc'[p] # "authed"
           /\ ValidSession(authToken, tokenExpiry, now) /\ cachedLeagues = <<>>)
            => pc'[p] = "leagues"
       /\ (/\ pc[p] = "login_leagues" /\ Receives(p) /\ resp'[p].kind = "ok"
           /\ resp'[p].tknex # BadTknex /\ cachedLeagues' = <<>>)
            => pc'[p] = "leagues"
       /\ (pc'[p] = "leagues" /\ pc[p] # "leagues")
            => /\ cachedLeagues' = <<>>
               /\ Count(log'[p], "leagues") = 1
               /\ log'[p][Len(log'[p])].k = "leagues"
       /\ (pc[p] = "leagues" /\ Receives(p))
            => /\ Count(log'[p], "leagues") = 1
               /\ IF resp'[p].kind = "ok" /\ resp'[p].hasList /\ Len(resp'[p].list) > 0
                  THEN /\ cachedLeagues' = resp'[p].list
                       /\ lret'[p] = [set |-> TRUE, ls |-> resp'[p].list]
                       /\ op[p] = "getKickbaseLeagues"
                            => (pc'[p] = "done" /\ st'[p] = "ok")
                  ELSE /\ pc'[p] = "done" /\ Failed(p)'
                       /\ cachedLeagues' = <<>> /\ ~lret'[p].set]_vars

\* C13 witness: getLeagues() returned and cached the bare sequence <<B, A>>
\* of its one listing request.
C13_Witness ==
  /\ op[1] = "getKickbaseLeagues" /\ pc[1] = "done" /\ st[1] = "ok"
  /\ resp[1].ep = "leagues" /\ ~resp[1].wrapped /\ resp[1].list = <<"B", "A">>
  /\ cachedLeagues = <<"B", "A">> /\ lret[1] = [set |-> TRUE, ls |-> <<"B", "A">>]
  /\ Count(log[1], "leagues") = 1

\* C14: every budget request of a run carries the id of the first element of
\* the sequence getLeagues() returned in that run; when that first element is
\* absent, getBudget() has failed and no budget request was sent.
C14_PrimaryLeague ==
  \A p \in Procs :
    /\ \A i \in 1 .. Len(log[p]) :
         log[p][i].k = "budget"
           => /\ lret[p].set /\ Len(lret[p].ls) > 0
              /\ lret[p].ls[1] # NullLeague
              /\ log[p][i].lid = lret[p].ls[1]
    /\ (/\ op[p] \in {"getKickbaseBudget", "runCheck"} /\ lret[p].set
        /\ Len(lret[p].ls) > 0 /\ lret[p].ls[1] = NullLeague)
         => pc[p] = "done" /\ Failed(p) /\ Count(log[p], "budget") = 0

\* C14 witness: getBudget() asked the budget of league B, the first of the
\* returned <<B, A>>.
C14_Witness ==
  /\ op[1] = "getKickbaseBudget" /\ pc[1] = "done" /\ st[1] = "ok"
  /\ lret[1] = [set |-> TRUE, ls |-> <<"B", "A">>]
  /\ Count(log[1], "budget") = 1 /\ log[1][Len(log[1])].lid = "B"

\* C15: on a successful budget response getBudget() returns the field b
\* unchanged when it is present and 0 when it is absent, and a response
\* without the field ends the run without a notification; on any other
\* response getBudget() fails and returns no number.
C15_BudgetExtraction ==
  [][\A p \in Procs :
       (pc[p] = "budget" /\ Receives(p))
         => /\ (resp'[p].kind = "ok" /\ resp'[p].hasB)
                 => bret'[p] = [set |-> TRUE, b |-> resp'[p].b]
            /\ (resp'[p].kind = "ok" /\ ~resp'[p].hasB)
                 => /\ bret'[p] = [set |-> TRUE, b |-> 0]
                    /\ pc'[p] = "done" /\ st'[p] = "ok" /\ ~fatal'[p]
                    /\ Count(log'[p], "notify") = 0
            /\ (resp'[p].kind = "ok" /\ op[p] = "getKickbaseBudget")
                 => (pc'[p] = "done" /\ st'[p] = "ok")
            /\ resp'[p].kind # "ok"
                 => /\ pc'[p] = "done" /\ Failed(p)' /\ ~bret'[p].set
                    /\ Count(log'[p], "notify") = 0]_vars

\* C15 witness: a run whose budget response had no field b ended with budget
\* 0 and no notification.
C15_Witness ==
  /\ op[1] = "runCheck" /\ pc[1] = "done" /\ ~fatal[1]
  /\ resp[1].ep = "budget" /\ resp[1].kind = "ok" /\ ~resp[1].hasB
  /\ bret[1] = [set |-> TRUE, b |-> 0] /\ Count(log[1], "notify") = 0

\* Place of a request kind in the order login, league-listing, budget,
\* notification.
Rank(k) ==
  CASE k = "login" -> 1 [] k = "leagues" -> 2 [] k = "budget" -> 3 [] k = "notify" -> 4

\* C16: the requests of a run come in the order login, league-listing,
\* budget, notification; no league-listing or budget request carries an
\* absent token; no notification is sent before the budget is resolved.
\* (Violated: a login body without tkn is stored, ensureAuthenticated returns,
\* and the next request carries the absent token.)
C16_StrictSequencing ==
  \A p \in Procs :
    /\ \A i, j \in 1 .. Len(log[p]) :
         i < j => Rank(log[p][i].k) <= Rank(log[p][j].k)
    /\ \A i \in 1 .. Len(log[p]) :
         log[p][i].k \in {"leagues", "budget"} => log[p][i].tok # NoToken
    /\ Count(log[p], "notify") > 0 => bret[p].set

\* C17: once the league cache holds a non-empty sequence it holds a non-empty
\* sequence in every later state. (Violated: a login body with srvl = [] is
\* truthy at line 114 and replaces the cache.)
C17_CacheNeverEmptied ==
  [][Len(cachedLeagues) > 0 => Len(cachedLeagues') > 0]_vars

\* C18: getLeagues() never returns an empty sequence, so the check of line
\* 227 never fires; every successful getLeagues() returned a sequence.
C18_NeverEmpty ==
  \A p \in Procs :
    /\ lret[p].set => Len(lret[p].ls) >= 1
    /\ (op[p] = "getKickbaseLeagues" /\ pc[p] = "done" /\ st[p] = "ok")
         => lret[p].set
    /\ (pc[p] = "budget" \/ bret[p].set) => lret[p].set

\* C18 witness: the check of line 233 fired: getLeagues() returned a
\* sequence whose first element is absent and getBudget() failed on it.
C18_Witness ==
  /\ op[1] = "getKickbaseBudget" /\ pc[1] = "done" /\ st[1] = "error"
  /\ lret[1] = [set |-> TRUE, ls |-> <<NullLeague>>]
  /\ Count(log[1], "budget") = 0

\* C19: a run performs at most one login call, whatever the login response.
\* (Violated: after a login whose expiry is within the margin, the
\* ensureAuthenticated of getKickbaseLeagues logs in again.)
C19_AtMostOneLogin ==
  \A p \in Procs : op[p] = "runCheck" => Count(log[p], "login") <= 1

\* C20: overlapping runs race on the shared session and cache: a run that
\* finds the session invalid sends a login whether or not another run's login
\* is in flight, and every successful login response, whatever was written
\* since its request, overwrites the token and the expiry, and the cache too
\* when it carries a list.
C20_LastLoginWins ==
  [][\A p \in Procs :
       /\ (Calls(p) /\ ~isTokenValid(authToken, tokenExpiry, now))
            => Kinds(log'[p]) = <<"login">>
       /\ (Receives(p) /\ pc[p] \in LoginPcs /\ resp'[p].kind = "ok")
            => /\ authToken' = resp'[p].tkn
               /\ tokenExpiry' = NewDate(resp'[p].tknex)
               /\ resp'[p].hasList => cachedLeagues' = resp'[p].list]_vars

\* C20 witness: no time has passed, both runs logged in once and both got a
\* session valid from then on, so each login was sent before the other's was
\* answered; the session and the cache are those of run 1's response, which
\* replaced the token, expiry and cache written by run 2's.
C20_Witness ==
  /\ now = 1
  /\ \A p \in Procs : pc[p] = "authed" /\ Kinds(log[p]) = <<"login">>
  /\ resp[1] = Response("login", "ok", "t1", MaxNow + Margin + 1, TRUE, <<"A">>,
                        FALSE, FALSE, 0)
  /\ resp[2] = Response("login", "ok", "t2", MaxNow + Margin + 1, TRUE,
                        <<"B", "A">>, FALSE, FALSE, 0)
  /\ authToken = "t1" /\ cachedLeagues = <<"A">>
====
